---- MODULE Spec2Model ----
(***************************************************************************)
(* Model of the MIDI byte stream parser of MIDOParser.py: class Parser     *)
(* (feed, feed_byte, get_message, pending, __iter__, _decode) and the      *)
(* module functions parse_all and parse.  The Tokenizer (.tokenizer) and   *)
(* Message.from_bytes (.messages) are imported by MIDOParser.py; they are  *)
(* modelled from sections 3, 4.1, 6 and 7 of the specification.            *)
(* The conversions notes2pianoroll and pianoroll2notes of the same file    *)
(* are modelled with their arguments at the defaults.                      *)
(***************************************************************************)
EXTENDS Integers, Sequences, FiniteSets, TLC

VARIABLES
    messages,   \* Parser.messages: the deque of decoded messages
    tok,        \* Parser._tok: the Tokenizer (running, msg, sysex, ready)
    rejects,    \* the tokens Message.from_bytes raises on (fixed per run)
    fed,        \* history: the bytes the tokenizer has consumed so far
    framed,     \* history: the tokens framed so far, in framing order
    popped,     \* history: the messages popped so far, in pop order
    given,      \* history: the number of values handed to feed / feed_byte
    source,     \* the values the caller's byte source produces (fixed per run)
    call,       \* the last operation called and its outcome
    heap,       \* two Parsers: the objects (deques, Tokenizers) they created
    parsers,    \* two Parsers: each one's references into heap, what it
                \* yielded and what its last call returned
    alone,      \* two Parsers: each one's calls run on a Parser of its own
    note_stream_ori,    \* the note list given to notes2pianoroll
    roll,       \* the call of notes2pianoroll: made or not, error, pianoroll
    notes       \* the call of pianoroll2notes: made or not, the notes

vars == <<messages, tok, rejects, fed, framed, popped, given, source, call,
          heap, parsers, alone, note_stream_ori, roll, notes>>

\* the variables of the two-Parser specification
two == <<heap, parsers, alone>>

\* the variables of the pianoroll conversion
conv == <<note_stream_ori, roll, notes>>

----------------------------------------------------------------------------
(* Bounds of the model. *)

\* the number of values handed to feed / feed_byte in one behaviour
MaxFed == 4

\* The byte sources.  Values: 0x90 note-on (2 data bytes), 0xC0 program
\* change (1 data byte), the data bytes 60 and 127, 0xF0 / 0xF7 sysex start
\* / end, 0xF1 quarter frame (1 data byte), 0xF6 tune request (no data),
\* 0xF8 clock (realtime) and 256, which is no byte.
\* channel voice messages, running status and realtime bytes
ChannelSource == {144, 192, 60, 127, 248}

\* sysex, realtime bytes inside it, a channel voice status around it
SysexSource == {240, 247, 192, 60, 248}

\* system common messages, a channel voice status, a value that is no byte
CommonSource == {241, 246, 192, 60, 256}

Sources == {ChannelSource, SysexSource, CommonSource}

\* the sequences of n values of S
SeqsOf(S, n) == [1..n -> S]

----------------------------------------------------------------------------
(* Byte classes (specification, section 3). *)

IsByte(v) == v >= 0 /\ v <= 255

IsData(b) == b >= 0 /\ b <= 127

IsStatus(b) == b >= 128 /\ b <= 255

IsChannelVoice(b) == b >= 128 /\ b <= 239

IsRealtime(b) == b >= 248 /\ b <= 255

SYSEX_START == 240

SYSEX_END == 247

\* the number of data bytes that follow status byte s; a status with no
\* defined count takes none
DataLen(s) ==
    CASE s \div 16 \in {8, 9, 10, 11, 14} -> 2
      [] s \div 16 \in {12, 13} -> 1
      [] s \in {241, 243} -> 1
      [] s = 242 -> 2
      [] OTHER -> 0

----------------------------------------------------------------------------
(* Tokenizer (specification, section 4.1). *)

\* Tokenizer(): no running status, nothing in progress, nothing ready
NewTokenizer == [running |-> 0, msg |-> <<>>, sysex |-> <<>>, ready |-> <<>>]

Emit(t, token) == [t EXCEPT !.ready = Append(@, token)]

\* the per-byte algorithm, steps 1-5, for a byte b in 0..255
TokStep(t, b) ==
    IF IsRealtime(b) THEN Emit(t, <<b>>)
    ELSE IF b = SYSEX_START THEN
        [t EXCEPT !.sysex = <<b>>, !.msg = <<>>, !.running = 0]
    ELSE IF t.sysex # <<>> THEN
        IF b = SYSEX_END
        THEN Emit([t EXCEPT !.sysex = <<>>], Append(t.sysex, b))
        ELSE [t EXCEPT !.sysex = Append(@, b)]
    ELSE IF IsStatus(b) THEN
        LET r == IF IsChannelVoice(b) THEN b ELSE 0 IN
        IF DataLen(b) = 0
        THEN Emit([t EXCEPT !.running = r, !.msg = <<>>], <<b>>)
        ELSE [t EXCEPT !.running = r, !.msg = <<b>>]
    ELSE
        LET cur == IF t.msg # <<>> THEN t.msg
                   ELSE IF t.running # 0 THEN <<t.running>>
                   ELSE <<>>
        IN  IF cur = <<>> THEN t
            ELSE LET m == Append(cur, b) IN
                 IF Len(m) = 1 + DataLen(m[1])
                 THEN Emit([t EXCEPT !.msg = <<>>], m)
                 ELSE [t EXCEPT !.msg = m]

\* Tokenizer.feed_byte(byte): InvalidInput for a value outside 0..255
TokFeedByte(t, v) ==
    IF IsByte(v) THEN [tok |-> TokStep(t, v), err |-> "none", used |-> 1]
    ELSE [tok |-> t, err |-> "InvalidInput", used |-> 0]

\* Tokenizer.feed(data): the bytes strictly in order, failing at the first
\* value that is no byte; used counts the bytes consumed
RECURSIVE TokFeed(_, _)
TokFeed(t, data) ==
    IF data = <<>> THEN [tok |-> t, err |-> "none", used |-> 0]
    ELSE LET r == TokFeedByte(t, Head(data)) IN
         IF r.err # "none" THEN r
         ELSE LET s == TokFeed(r.tok, Tail(data)) IN
              [s EXCEPT !.used = @ + 1]

----------------------------------------------------------------------------
(* Message.from_bytes (specification, sections 3 and 6): one token, one    *)
(* message.                                                                *)

TypeOf(s) ==
    CASE s \div 16 = 8 -> "note_off"
      [] s \div 16 = 9 -> "note_on"
      [] s \div 16 = 10 -> "polytouch"
      [] s \div 16 = 11 -> "control_change"
      [] s \div 16 = 12 -> "program_change"
      [] s \div 16 = 13 -> "aftertouch"
      [] s \div 16 = 14 -> "pitchwheel"
      [] s = 240 -> "sysex"
      [] s = 241 -> "quarter_frame"
      [] s = 242 -> "songpos"
      [] s = 243 -> "song_select"
      [] s = 246 -> "tune_request"
      [] s = 248 -> "clock"
      [] s = 250 -> "start"
      [] s = 251 -> "continue"
      [] s = 252 -> "stop"
      [] s = 254 -> "active_sensing"
      [] s = 255 -> "reset"
      [] OTHER -> "undefined"

from_bytes(token) ==
    LET s == token[1] IN
    [type |-> TypeOf(s),
     channel |-> IF IsChannelVoice(s) THEN s % 16 ELSE 0,
     data |-> IF s = SYSEX_START THEN SubSeq(token, 2, Len(token) - 1)
              ELSE IF TypeOf(s) = "undefined" THEN token
              ELSE Tail(token)]

----------------------------------------------------------------------------
(* Parser.  A Parser value is [messages, tok]. *)

\* Parser.__init__ with data = None (lines 21-22)
NewParser == [messages |-> <<>>, tok |-> NewTokenizer]

\* _decode taking the tokenizer's message in progress for a token as well
RECURSIVE decode_with_partial(_, _)
decode_with_partial(p, rej) ==
    IF p.tok.ready = <<>>
    THEN [p |-> IF p.tok.msg = <<>> THEN p
                ELSE [p EXCEPT !.messages = Append(@, from_bytes(p.tok.msg)),
                               !.tok.msg = <<>>],
          err |-> "none"]
    ELSE LET token == Head(p.tok.ready)
             q == [p EXCEPT !.tok.ready = Tail(@)]
         IN  IF token \in rej THEN [p |-> q, err |-> "DecodeError"]
             ELSE decode_with_partial(
                      [q EXCEPT !.messages = Append(@, from_bytes(token))], rej)

\* _decode starting from an empty deque
RECURSIVE decode_new_deque(_, _)
decode_new_deque(p, rej) ==
    IF p.tok.ready = <<>> THEN [p |-> [p EXCEPT !.messages = <<>>], err |-> "none"]
    ELSE LET token == Head(p.tok.ready)
             q == [p EXCEPT !.tok.ready = Tail(@)]
             d == decode_new_deque(q, rej)
         IN  IF token \in rej THEN [p |-> q, err |-> "DecodeError"]
             ELSE [d EXCEPT !.p.messages = <<from_bytes(token)>> \o @]

\* _decode with appendleft for append
RECURSIVE decode_appendleft(_, _)
decode_appendleft(p, rej) ==
    IF p.tok.ready = <<>> THEN [p |-> p, err |-> "none"]
    ELSE LET token == Head(p.tok.ready)
             q == [p EXCEPT !.tok.ready = Tail(@)]
         IN  IF token \in rej THEN [p |-> q, err |-> "DecodeError"]
             ELSE decode_appendleft(
                      [q EXCEPT !.messages = <<from_bytes(token)>> \o @], rej)

\* _decode over a tokenizer whose iterator removes a token only after the
\* loop body is through with it
RECURSIVE decode_pop_after(_, _)
decode_pop_after(p, rej) ==
    IF p.tok.ready = <<>> THEN [p |-> p, err |-> "none"]
    ELSE LET token == Head(p.tok.ready)
             q == [p EXCEPT !.tok.ready = Tail(@)]
         IN  IF token \in rej THEN [p |-> p, err |-> "DecodeError"]
             ELSE decode_pop_after(
                      [q EXCEPT !.messages = Append(@, from_bytes(token))], rej)

\* Parser._decode: pop each ready token from the tokenizer and append its
\* message; a token from_bytes raises on is already popped when it raises
RECURSIVE decode(_, _)
decode(p, rej) ==
    IF p.tok.ready = <<>> THEN [p |-> p, err |-> "none"]
    ELSE LET token == Head(p.tok.ready)
             q == [p EXCEPT !.tok.ready = Tail(@)]
         IN  IF token \in rej THEN [p |-> q, err |-> "DecodeError"]
             ELSE decode([q EXCEPT !.messages = Append(@, from_bytes(token))], rej)

\* feed running self._decode() in a finally clause
feed_decode_finally(p, data, rej) ==
    LET r == TokFeed(p.tok, data)
        d == decode([p EXCEPT !.tok = r.tok], rej)
    IN  [p |-> d.p, err |-> IF r.err # "none" THEN r.err ELSE d.err,
         used |-> r.used,
              ready |-> r.tok.ready]

\* feed on a tokenizer created anew by each call
feed_new_tokenizer(p, data, rej) ==
    LET r == TokFeed(NewTokenizer, data)
        q == [p EXCEPT !.tok = r.tok]
    IN  IF r.err # "none" THEN [p |-> q, err |-> r.err, used |-> r.used,
              ready |-> r.tok.ready]
        ELSE LET d == decode(q, rej) IN
             [p |-> d.p, err |-> d.err, used |-> r.used,
              ready |-> r.tok.ready]

\* feed decoding the first ready token only
feed_decode_one(p, data, rej) ==
    LET r == TokFeed(p.tok, data)
        q == [p EXCEPT !.tok = r.tok]
    IN  IF r.err # "none" \/ q.tok.ready = <<>>
        THEN [p |-> q, err |-> r.err, used |-> r.used,
              ready |-> r.tok.ready]
        ELSE [p |-> [q EXCEPT !.tok.ready = Tail(@),
                              !.messages = Append(@, from_bytes(Head(q.tok.ready)))],
              err |-> "none", used |-> r.used,
              ready |-> r.tok.ready]

\* Parser.feed(data): self._tok.feed(data), then self._decode(), which is
\* not reached when the tokenizer raises; used counts the values consumed
\* and ready is the tokenizer's ready list when self._tok.feed returned
feed(p, data, rej) ==
    LET r == TokFeed(p.tok, data)
        q == [p EXCEPT !.tok = r.tok]
    IN  IF r.err # "none" THEN [p |-> q, err |-> r.err, used |-> r.used,
              ready |-> r.tok.ready]
        ELSE LET d == decode(q, rej) IN
             [p |-> d.p, err |-> d.err, used |-> r.used,
              ready |-> r.tok.ready]

\* feed_byte with the two statements swapped: decode, then tokenize
feed_byte_decode_first(p, byte, rej) ==
    LET d == decode(p, rej)
        r == TokFeedByte(d.p.tok, byte)
    IN  [p |-> [d.p EXCEPT !.tok = r.tok], err |-> r.err, used |-> r.used,
              ready |-> r.tok.ready]

\* feed_byte without the call of self._decode()
feed_byte_no_decode(p, byte, rej) ==
    LET r == TokFeedByte(p.tok, byte) IN
    [p |-> [p EXCEPT !.tok = r.tok], err |-> r.err, used |-> r.used,
              ready |-> r.tok.ready]

\* Parser.feed_byte(byte): self._tok.feed_byte(byte), then self._decode()
feed_byte(p, byte, rej) ==
    LET r == TokFeedByte(p.tok, byte)
        q == [p EXCEPT !.tok = r.tok]
    IN  IF r.err # "none" THEN [p |-> q, err |-> r.err, used |-> r.used,
              ready |-> r.tok.ready]
        ELSE LET d == decode(q, rej) IN
             [p |-> d.p, err |-> d.err, used |-> r.used,
              ready |-> r.tok.ready]

\* __iter__ with pop() for popleft()
iter_next_pop(p) ==
    IF Len(p.messages) > 0
    THEN [p |-> [p EXCEPT !.messages = SubSeq(@, 1, Len(@) - 1)],
          ret |-> <<p.messages[Len(p.messages)]>>]
    ELSE [p |-> p, ret |-> <<>>]

\* __iter__ with the loop condition len(self.messages) > 1
iter_next_leaves_one(p) ==
    IF Len(p.messages) > 1
    THEN [p |-> [p EXCEPT !.messages = Tail(@)], ret |-> <<Head(p.messages)>>]
    ELSE [p |-> p, ret |-> <<>>]

\* one step of the generator Parser.__iter__: while the deque is not empty,
\* yield self.messages.popleft(); ret is <<>> when the generator is exhausted
iter_next(p) ==
    IF Len(p.messages) > 0
    THEN [p |-> [p EXCEPT !.messages = Tail(@)], ret |-> <<Head(p.messages)>>]
    ELSE [p |-> p, ret |-> <<>>]

\* Parser.get_message(): the first message the iterator yields, else None
\* (ret is <<>> for None)
get_message(p) == iter_next(p)

\* Parser.pending(): len(self.messages)
pending(p) == Len(p.messages)

\* Parser.__init__(data): a new parser, fed data when data is truthy
ParserInit(data, rej) ==
    IF data # <<>> THEN feed(NewParser, data, rej)
    ELSE [p |-> NewParser, err |-> "none", used |-> 0, ready |-> <<>>]

\* list(parser): the iterator run until it is exhausted
RECURSIVE drain(_)
drain(p) ==
    LET r == iter_next(p) IN
    IF r.ret = <<>> THEN [p |-> p, ret |-> <<>>]
    ELSE LET s == drain(r.p) IN [p |-> s.p, ret |-> r.ret \o s.ret]

\* parse_all(data): list(Parser(data)); the constructor's error propagates
parse_all(data, rej) ==
    LET c == ParserInit(data, rej) IN
    IF c.err # "none" THEN [p |-> c.p, err |-> c.err, ret |-> <<>>]
    ELSE LET d == drain(c.p) IN [p |-> d.p, err |-> "none", ret |-> d.ret]

\* parse returning the message parsed last
parse_last(data, rej) ==
    LET c == ParserInit(data, rej) IN
    IF c.err # "none" THEN [p |-> c.p, err |-> c.err, ret |-> <<>>]
    ELSE IF c.p.messages = <<>> THEN [p |-> c.p, err |-> "none", ret |-> <<>>]
    ELSE [p |-> [c.p EXCEPT !.messages = SubSeq(@, 1, Len(@) - 1)],
          err |-> "none", ret |-> <<c.p.messages[Len(c.p.messages)]>>]

\* parse(data): Parser(data).get_message()
parse(data, rej) ==
    LET c == ParserInit(data, rej) IN
    IF c.err # "none" THEN [p |-> c.p, err |-> c.err, ret |-> <<>>]
    ELSE LET g == get_message(c.p) IN [p |-> g.p, err |-> "none", ret |-> g.ret]

----------------------------------------------------------------------------
(* Two Parser instances.  The objects a Parser creates live in an object   *)
(* store (heap, a sequence indexed by object id); a Parser instance holds  *)
(* the ids of its deque and of its Tokenizer, so that two instances can    *)
(* be told apart from two names of one object.                             *)

\* a new object: the store with it, and its id
Alloc(h, obj) == [heap |-> Append(h, obj), id |-> Len(h) + 1]

\* Parser.__init__ with messages a class attribute: every instance after
\* the first refers to the deque of the first
Construct_class_deque(h) ==
    LET d == IF h = <<>> THEN Alloc(h, <<>>) ELSE [heap |-> h, id |-> 1]
        t == Alloc(d.heap, NewTokenizer)
    IN  [heap |-> t.heap, self |-> [messages |-> d.id, tok |-> t.id]]

\* Parser.__init__ with data None (lines 21-22): self.messages = deque()
\* and self._tok = Tokenizer() are two new objects
Construct(h) ==
    LET d == Alloc(h, <<>>)
        t == Alloc(d.heap, NewTokenizer)
    IN  [heap |-> t.heap, self |-> [messages |-> d.id, tok |-> t.id]]

\* the Parser value an instance sees through its references
View(h, self) == [messages |-> h[self.messages], tok |-> h[self.tok]]

\* the store after a call on the instance left it as Parser value p
Store(h, self, p) ==
    [h EXCEPT ![self.messages] = p.messages, ![self.tok] = p.tok]

\* what a call returned: ret (<<>> for None or nothing), pending()'s
\* number, the error raised
Outcome(ret, n, err) == [ret |-> ret, n |-> n, err |-> err]

\* two instances, a = Parser() and b = Parser(), with the Parser each one's
\* calls are replayed on
TwoInit ==
    \E a \in {Construct(<<>>)} : \E b \in {Construct(a.heap)} :
        /\ heap = b.heap
        /\ parsers = <<[self |-> a.self, yielded |-> <<>>,
                        last |-> Outcome(<<>>, 0, "none")],
                       [self |-> b.self, yielded |-> <<>>,
                        last |-> Outcome(<<>>, 0, "none")]>>
        /\ alone = <<[self |-> NewParser, yielded |-> <<>>,
                      last |-> Outcome(<<>>, 0, "none")],
                     [self |-> NewParser, yielded |-> <<>>,
                      last |-> Outcome(<<>>, 0, "none")]>>

----------------------------------------------------------------------------
(* notes2pianoroll and pianoroll2notes.  A note is a record [velocity,     *)
(* pitch, start, end].  A pianoroll is [err, rows, cells]: err is the      *)
(* exception of the call or "none", rows is the number of rows of the      *)
(* array (it has PITCH_RANGE columns), and cells maps the coordinates      *)
(* <<time, pitch>> that were given a value to that value; every other cell *)
(* of the array is 0.                                                      *)

\* the largest tick of a note of the input
MaxTick == 3

\* the largest number of notes of the input
MaxNotes == 2

\* line 98
PITCH_RANGE == 128

\* two pitches next to one another
Pitches == {60, 61}

\* no velocity (such notes are skipped), and two velocities whose sum is
\* over 127
Velocities == {0, 64, 100}

\* the notes of the input: start <= end <= MaxTick
NoteValues ==
    {note \in [velocity : Velocities, pitch : Pitches,
               start : 0..MaxTick, end : 0..MaxTick] : note.start <= note.end}

\* the note lists of the input
NoteLists == UNION {[1..n -> NoteValues] : n \in 0..MaxNotes}

\* sorted(note_stream, key=lambda x: x.end) (line 124): a stable sort
RECURSIVE sorted_by_end(_)
sorted_by_end(stream) ==
    IF stream = <<>> THEN <<>>
    ELSE LET front == sorted_by_end(SubSeq(stream, 1, Len(stream) - 1))
             note == stream[Len(stream)]
             k == Cardinality({i \in 1..Len(front) : front[i].end <= note.end})
         IN  SubSeq(front, 1, k) \o <<note>> \o SubSeq(front, k + 1, Len(front))

\* np.arange(a, b): a, a+1, .., b-1
arange(a, b) == [i \in 1..(b - a) |-> a + i - 1]

\* [x] * n
repeat(x, n) == [i \in 1..n |-> x]

\* the loop of lines 142-165 with binary_thres None: coo is the three lists
\* time_coo, pitch_coo, velocity
RECURSIVE note_loop(_, _, _)
note_loop(stream, keep_note, coo) ==
    IF stream = <<>> THEN coo
    ELSE LET note == Head(stream) IN
         IF note.velocity = 0 THEN note_loop(Tail(stream), keep_note, coo)
         ELSE LET zero == keep_note /\ note.end - note.start = 0
                  duration == IF zero THEN 1 ELSE note.end - note.start
                  end == IF zero THEN note.end + 1 ELSE note.end
              IN  note_loop(Tail(stream), keep_note,
                      [time_coo |-> coo.time_coo \o arange(note.start, end),
                       pitch_coo |-> coo.pitch_coo \o repeat(note.pitch, duration),
                       velocity |-> coo.velocity \o repeat(note.velocity, duration)])

\* the sum of the values at the indices of idx
RECURSIVE SumAt(_, _)
SumAt(values, idx) ==
    IF idx = {} THEN 0
    ELSE LET i == CHOOSE j \in idx : TRUE IN
         values[i] + SumAt(values, idx \ {i})

\* csc_matrix((velocity, (time_coo, pitch_coo)), shape=(rows, cols))
\* .toarray() (lines 168-169): ValueError when the lists differ in length
\* or a coordinate is outside the shape; values given to one coordinate
\* are summed
csc_matrix(velocity, time_coo, pitch_coo, rows, cols) ==
    IF \/ Len(time_coo) # Len(velocity)
       \/ Len(pitch_coo) # Len(velocity)
       \/ \E i \in 1..Len(velocity) :
              \/ time_coo[i] \notin 0..(rows - 1)
              \/ pitch_coo[i] \notin 0..(cols - 1)
    THEN [err |-> "ValueError", rows |-> 0, cells |-> <<>>]
    ELSE [err |-> "none", rows |-> rows,
          cells |-> [c \in {<<time_coo[i], pitch_coo[i]>> : i \in 1..Len(velocity)}
                       |-> SumAt(velocity,
                                 {i \in 1..Len(velocity) :
                                     <<time_coo[i], pitch_coo[i]>> = c})]]

\* notes2pianoroll(note_stream_ori, keep_note=keep_note) with the other
\* arguments at their defaults (resample_factor 1.0, binary_thres None,
\* max_tick None, to_sparse False): lines 109-171
notes2pianoroll(stream_ori, keep_note) ==
    LET note_stream == sorted_by_end(stream_ori)
        max_tick == IF Len(note_stream) = 0 THEN 0
                    ELSE note_stream[Len(note_stream)].end
        coo == note_loop(note_stream, keep_note,
                         [time_coo |-> <<>>, pitch_coo |-> <<>>, velocity |-> <<>>])
    IN  csc_matrix(coo.velocity, coo.time_coo, coo.pitch_coo, max_tick, PITCH_RANGE)

\* pianoroll[t, p]
At(pianoroll, t, p) ==
    IF <<t, p>> \in DOMAIN pianoroll.cells THEN pianoroll.cells[<<t, p>>] ELSE 0

\* padded[t + 1, p] of lines 178-179: pianoroll > 0, False in the two rows
\* added before and after
binarized(pianoroll, t, p) ==
    t \in 0..(pianoroll.rows - 1) /\ At(pianoroll, t, p) > 0

\* the elements of a set of numbers, ascending
RECURSIVE Ascending(_)
Ascending(S) ==
    IF S = {} THEN <<>>
    ELSE LET m == CHOOSE x \in S : \A y \in S : x <= y IN
         <<m>> \o Ascending(S \ {m})

\* np.nonzero(cond.T) for cond over diff (lines 180-185): the <<pitch, i>>
\* with cond, by pitch, then by i; diff[i, p] = padded[i+1, p] - padded[i, p]
RECURSIVE nonzero_T(_, _, _)
nonzero_T(pianoroll, sign, pitches) ==
    IF pitches = <<>> THEN <<>>
    ELSE LET p == Head(pitches)
             at == {i \in 0..pianoroll.rows :
                      IF sign > 0
                      THEN binarized(pianoroll, i, p) /\ ~binarized(pianoroll, i - 1, p)
                      ELSE ~binarized(pianoroll, i, p) /\ binarized(pianoroll, i - 1, p)}
             here == Ascending(at)
         IN  [k \in 1..Len(here) |-> <<p, here[k]>>]
                \o nonzero_T(pianoroll, sign, Tail(pitches))

\* the columns of the array that hold a value (the others give no index)
Columns(pianoroll) == Ascending({c[2] : c \in DOMAIN pianoroll.cells})

\* notes.sort(key=lambda x: x.start) (line 199): a stable sort
RECURSIVE sort_by_start(_)
sort_by_start(list) ==
    IF list = <<>> THEN <<>>
    ELSE LET front == sort_by_start(SubSeq(list, 1, Len(list) - 1))
             note == list[Len(list)]
             k == Cardinality({i \in 1..Len(front) : front[i].start <= note.start})
         IN  SubSeq(front, 1, k) \o <<note>> \o SubSeq(front, k + 1, Len(front))

\* max(0, min(127, velocity)) (line 192)
clamp(velocity) ==
    IF velocity > 127 THEN 127 ELSE IF velocity < 0 THEN 0 ELSE velocity

\* the notes of lines 187-198, in the order of np.nonzero
raw_notes(pianoroll) ==
    LET positives == nonzero_T(pianoroll, 1, Columns(pianoroll))
        note_offs == nonzero_T(pianoroll, -1, Columns(pianoroll))
    IN  [idx \in 1..Len(positives) |->
            [velocity |-> clamp(At(pianoroll, positives[idx][2], positives[idx][1])),
             pitch |-> positives[idx][1],
             start |-> positives[idx][2],
             end |-> note_offs[idx][2]]]

\* pianoroll2notes without the sort of line 199
pianoroll2notes_unsorted(pianoroll) == raw_notes(pianoroll)

\* pianoroll2notes(pianoroll) with resample_factor 1.0: lines 174-200
pianoroll2notes(pianoroll) == sort_by_start(raw_notes(pianoroll))

\* no call made yet
ConvInit ==
    /\ note_stream_ori = <<>>
    /\ roll = [called |-> FALSE, err |-> "none", rows |-> 0, cells |-> <<>>]
    /\ notes = [called |-> FALSE, list |-> <<>>]

----------------------------------------------------------------------------
(* The state machine: one Parser, its callers feeding and popping.  An     *)
(* action binds the outcome r of the call once (\E r \in {...}) and copies  *)
(* it into the variables.                                                  *)

Self == [messages |-> messages, tok |-> tok]

\* the tokens a call appended to the tokenizer's ready list
NewlyFramed(before, after) == SubSeq(after, Len(before) + 1, Len(after))

\* the record of a call: the operation, what it returned (ret: <<>> for
\* None or nothing, n: pending()'s number), the error it raised, the values
\* of its argument the tokenizer did not consume, and whether the parser was
\* new (never fed, never popped) when it was called
Called(op, ret, n, err, rest) ==
    [op |-> op, ret |-> ret, n |-> n, err |-> err, rest |-> rest,
     first |-> (given = 0 /\ call.op = "new")]

Init ==
    /\ messages = NewParser.messages
    /\ tok = NewParser.tok
    /\ rejects = {}
    /\ fed = <<>>
    /\ framed = <<>>
    /\ popped = <<>>
    /\ given = 0
    /\ source \in Sources
    /\ call = [op |-> "new", ret |-> <<>>, n |-> 0, err |-> "none",
               rest |-> <<>>, first |-> FALSE]
    /\ TwoInit
    /\ ConvInit

Feed(data) ==
    /\ given + Len(data) <= MaxFed
    /\ \E r \in {feed(Self, data, rejects)} :
        /\ messages' = r.p.messages
        /\ tok' = r.p.tok
        /\ fed' = fed \o SubSeq(data, 1, r.used)
        /\ framed' = framed \o NewlyFramed(tok.ready, r.ready)
        /\ call' = Called("feed", <<>>, 0, r.err,
                          SubSeq(data, r.used + 1, Len(data)))
    /\ given' = given + Len(data)
    /\ UNCHANGED <<rejects, popped, source, two, conv>>

FeedByte(byte) ==
    /\ given + 1 <= MaxFed
    /\ \E r \in {feed_byte(Self, byte, rejects)} :
        /\ messages' = r.p.messages
        /\ tok' = r.p.tok
        /\ fed' = fed \o SubSeq(<<byte>>, 1, r.used)
        /\ framed' = framed \o NewlyFramed(tok.ready, r.ready)
        /\ call' = Called("feed_byte", <<>>, 0, r.err,
                          SubSeq(<<byte>>, r.used + 1, 1))
    /\ given' = given + 1
    /\ UNCHANGED <<rejects, popped, source, two, conv>>

GetMessage ==
    /\ \E r \in {get_message(Self)} :
        /\ messages' = r.p.messages
        /\ tok' = r.p.tok
        /\ popped' = popped \o r.ret
        /\ call' = Called("get_message", r.ret, 0, "none", <<>>)
    /\ UNCHANGED <<rejects, fed, framed, given, source, two, conv>>

IterNext ==
    /\ \E r \in {iter_next(Self)} :
        /\ messages' = r.p.messages
        /\ tok' = r.p.tok
        /\ popped' = popped \o r.ret
        /\ call' = Called("next", r.ret, 0, "none", <<>>)
    /\ UNCHANGED <<rejects, fed, framed, given, source, two, conv>>

Pending ==
    /\ call' = Called("pending", <<>>, pending(Self), "none", <<>>)
    /\ UNCHANGED <<messages, tok, rejects, fed, framed, popped, given, source,
                   two, conv>>

Next ==
    \/ \E n \in 0..(MaxFed - given) : \E data \in SeqsOf(source, n) : Feed(data)
    \/ \E byte \in source : FeedByte(byte)
    \/ GetMessage
    \/ IterNext
    \/ Pending

Spec == Init /\ [][Next]_vars

----------------------------------------------------------------------------
(* The same Parser with a decode collaborator that breaks its contract:    *)
(* Message.from_bytes raises on the tokens of Rejected.                    *)

\* the clock token and the tune request token
Rejected == {<<248>>, <<246>>}

InitReject ==
    /\ messages = NewParser.messages
    /\ tok = NewParser.tok
    /\ rejects = Rejected
    /\ fed = <<>>
    /\ framed = <<>>
    /\ popped = <<>>
    /\ given = 0
    /\ source \in Sources
    /\ call = [op |-> "new", ret |-> <<>>, n |-> 0, err |-> "none",
               rest |-> <<>>, first |-> FALSE]
    /\ TwoInit
    /\ ConvInit

SpecReject == InitReject /\ [][Next]_vars

----------------------------------------------------------------------------
(* The module functions parse_all and parse.  Each call builds its own     *)
(* Parser and leaves nothing behind for the next call, so a behaviour is   *)
(* one call, and the variables hold the Parser that call built.            *)

\* the values of data the tokenizer did not consume
Unconsumed(data, used) == SubSeq(data, used + 1, Len(data))

ParseAll(data) ==
    /\ call.op = "new"
    /\ \E r \in {parse_all(data, rejects)}, t \in {TokFeed(NewTokenizer, data)} :
           /\ messages' = r.p.messages
           /\ tok' = r.p.tok
           /\ fed' = SubSeq(data, 1, t.used)
           /\ framed' = t.tok.ready
           /\ popped' = r.ret
           /\ call' = [op |-> "parse_all", ret |-> r.ret, n |-> 0, err |-> r.err,
                       rest |-> Unconsumed(data, t.used), first |-> TRUE]
    /\ given' = Len(data)
    /\ UNCHANGED <<rejects, source, two, conv>>

Parse(data) ==
    /\ call.op = "new"
    /\ \E r \in {parse(data, rejects)}, t \in {TokFeed(NewTokenizer, data)} :
           /\ messages' = r.p.messages
           /\ tok' = r.p.tok
           /\ fed' = SubSeq(data, 1, t.used)
           /\ framed' = t.tok.ready
           /\ popped' = r.ret
           /\ call' = [op |-> "parse", ret |-> r.ret, n |-> 0, err |-> r.err,
                       rest |-> Unconsumed(data, t.used), first |-> TRUE]
    /\ given' = Len(data)
    /\ UNCHANGED <<rejects, source, two, conv>>

NextParse ==
    \/ \E n \in 0..MaxFed : \E data \in SeqsOf(source, n) : ParseAll(data)
    \/ \E n \in 0..MaxFed : \E data \in SeqsOf(source, n) : Parse(data)

SpecParse == Init /\ [][NextParse]_vars

----------------------------------------------------------------------------
(* Two Parsers called in any interleaving.  A call on instance i reads and *)
(* writes the objects i refers to; the same call is replayed on alone[i],  *)
(* a Parser no other instance is ever near.                                *)

one == <<messages, tok, rejects, fed, framed, popped, source, call>>

TwoFeed(i, data) ==
    /\ given + Len(data) <= MaxFed
    /\ \E r \in {feed(View(heap, parsers[i].self), data, rejects)},
          s \in {feed(alone[i].self, data, rejects)} :
           /\ heap' = Store(heap, parsers[i].self, r.p)
           /\ parsers' = [parsers EXCEPT ![i].last = Outcome(<<>>, 0, r.err)]
           /\ alone' = [alone EXCEPT ![i].self = s.p,
                                     ![i].last = Outcome(<<>>, 0, s.err)]
    /\ given' = given + Len(data)
    /\ UNCHANGED <<one, conv>>

TwoFeedByte(i, byte) ==
    /\ given + 1 <= MaxFed
    /\ \E r \in {feed_byte(View(heap, parsers[i].self), byte, rejects)},
          s \in {feed_byte(alone[i].self, byte, rejects)} :
           /\ heap' = Store(heap, parsers[i].self, r.p)
           /\ parsers' = [parsers EXCEPT ![i].last = Outcome(<<>>, 0, r.err)]
           /\ alone' = [alone EXCEPT ![i].self = s.p,
                                     ![i].last = Outcome(<<>>, 0, s.err)]
    /\ given' = given + 1
    /\ UNCHANGED <<one, conv>>

TwoGetMessage(i) ==
    /\ \E r \in {get_message(View(heap, parsers[i].self))},
          s \in {get_message(alone[i].self)} :
           /\ heap' = Store(heap, parsers[i].self, r.p)
           /\ parsers' = [parsers EXCEPT ![i].yielded = @ \o r.ret,
                                         ![i].last = Outcome(r.ret, 0, "none")]
           /\ alone' = [alone EXCEPT ![i].self = s.p,
                                     ![i].yielded = @ \o s.ret,
                                     ![i].last = Outcome(s.ret, 0, "none")]
    /\ UNCHANGED <<one, given, conv>>

TwoPending(i) ==
    /\ parsers' = [parsers EXCEPT ![i].last =
                      Outcome(<<>>, pending(View(heap, parsers[i].self)), "none")]
    /\ alone' = [alone EXCEPT ![i].last =
                      Outcome(<<>>, pending(alone[i].self), "none")]
    /\ UNCHANGED <<one, given, heap, conv>>

NextTwo ==
    \/ \E i \in 1..2 : \E n \in 0..(MaxFed - given) :
           \E data \in SeqsOf(source, n) : TwoFeed(i, data)
    \/ \E i \in 1..2 : \E byte \in source : TwoFeedByte(i, byte)
    \/ \E i \in 1..2 : TwoGetMessage(i)
    \/ \E i \in 1..2 : TwoPending(i)

SpecTwo == Init /\ [][NextTwo]_vars

----------------------------------------------------------------------------
(* The pianoroll conversion: a note list, notes2pianoroll on it, then      *)
(* pianoroll2notes on the array it returned.                               *)

InitRoll ==
    /\ messages = NewParser.messages
    /\ tok = NewParser.tok
    /\ rejects = {}
    /\ fed = <<>>
    /\ framed = <<>>
    /\ popped = <<>>
    /\ given = 0
    /\ source = ChannelSource
    /\ call = [op |-> "new", ret |-> <<>>, n |-> 0, err |-> "none",
               rest |-> <<>>, first |-> FALSE]
    /\ TwoInit
    /\ note_stream_ori \in NoteLists
    /\ roll = [called |-> FALSE, err |-> "none", rows |-> 0, cells |-> <<>>]
    /\ notes = [called |-> FALSE, list |-> <<>>]

Notes2Pianoroll ==
    /\ ~roll.called
    /\ \E r \in {notes2pianoroll(note_stream_ori, TRUE)} :
           roll' = [called |-> TRUE, err |-> r.err, rows |-> r.rows,
                    cells |-> r.cells]
    /\ UNCHANGED <<one, given, two, note_stream_ori, notes>>

Pianoroll2Notes ==
    /\ roll.called
    /\ roll.err = "none"
    /\ ~notes.called
    /\ notes' = [called |-> TRUE, list |-> pianoroll2notes(roll)]
    /\ UNCHANGED <<one, given, two, note_stream_ori, roll>>

NextRoll ==
    \/ Notes2Pianoroll
    \/ Pianoroll2Notes

SpecRoll == InitRoll /\ [][NextRoll]_vars

----------------------------------------------------------------------------
(* Helpers of the properties. *)

\* the decodings of a sequence of tokens
Decoded(tokens) == [i \in 1..Len(tokens) |-> from_bytes(tokens[i])]

Last(s) == s[Len(s)]

\* every message that has left the tokenizer: popped, then queued
Delivered == popped \o messages

\* no call has failed: every value handed over was consumed
NoFailure == given = Len(fed)

\* a new Parser after one feed call with all of bytes
OneShot(bytes) == feed(NewParser, bytes, {}).p

----------------------------------------------------------------------------
(* C1 as stated: in every state, the messages popped so far followed by    *)
(* the messages in the queue are the decodings of all tokens framed so     *)
(* far, in framing order.                                                  *)
C1_AllFramedDelivered == Delivered = Decoded(framed)

(* C1 as amended: in every state, the messages popped so far, then the     *)
(* messages in the queue, then the decodings of the tokens still waiting   *)
(* in the tokenizer are the decodings of all tokens framed so far, in      *)
(* framing order; and the message of a realtime byte fed last is the last  *)
(* of them while the message it interrupted is still incomplete.           *)
C1_FramingOrderKept ==
    /\ Delivered \o Decoded(tok.ready) = Decoded(framed)
    /\ (/\ fed # <<>>
        /\ IsRealtime(Last(fed))
        /\ (tok.msg # <<>> \/ tok.sysex # <<>>))
       => Last(Delivered \o Decoded(tok.ready)) = from_bytes(<<Last(fed)>>)

\* popped, queued and waiting messages at once, the waiting one left by a
\* feed call that failed
C1_Witness ==
    /\ popped # <<>>
    /\ messages # <<>>
    /\ tok.ready # <<>>
    /\ call.err = "InvalidInput"

----------------------------------------------------------------------------
\* data is a concatenation of complete channel voice messages, each with
\* its own status byte and the data bytes that status requires
RECURSIVE WellFormedCV(_)
WellFormedCV(data) ==
    \/ data = <<>>
    \/ /\ IsChannelVoice(data[1])
       /\ Len(data) >= 1 + DataLen(data[1])
       /\ \A i \in 2..(1 + DataLen(data[1])) : IsData(data[i])
       /\ WellFormedCV(SubSeq(data, 2 + DataLen(data[1]), Len(data)))

\* the messages of such a concatenation, cut by the length each status
\* byte requires
RECURSIVE SplitCV(_)
SplitCV(data) ==
    IF data = <<>> THEN <<>>
    ELSE <<SubSeq(data, 1, 1 + DataLen(data[1]))>>
             \o SplitCV(SubSeq(data, 2 + DataLen(data[1]), Len(data)))

(* C2: when the first call on a new Parser is feed(data) and data is the   *)
(* concatenation of N complete channel voice messages with explicit status *)
(* bytes, the queue then holds exactly N messages, the i-th being the      *)
(* decoding of the bytes of the i-th input message.                        *)
C2_WellFormedYieldsN ==
    (call.op = "feed" /\ call.first /\ call.err = "none" /\ WellFormedCV(fed))
        => \A input \in {SplitCV(fed)} :
           /\ Len(messages) = Len(input)
           /\ \A i \in 1..Len(messages) :
                  /\ messages[i] = from_bytes(input[i])
                  /\ messages[i].channel = input[i][1] % 16
                  /\ messages[i].data = Tail(input[i])

\* two messages of different kinds from one feed call on a new Parser
C2_Witness ==
    /\ call.op = "feed" /\ call.first /\ call.err = "none"
    /\ WellFormedCV(fed)
    /\ Len(messages) = 2
    /\ messages[1] # messages[2]

(* C3: as long as no call has failed, however the bytes fed so far were    *)
(* split over feed and feed_byte calls, the tokenizer (running status,     *)
(* message in progress, sysex buffer, ready list) is the one of a new      *)
(* Parser after one feed call with all those bytes, and the messages       *)
(* popped and queued are that Parser's queue.                              *)
C3_ChunkingIrrelevant ==
    NoFailure => \A whole \in {OneShot(fed)} :
                    /\ tok = whole.tok
                    /\ Delivered = whole.messages

\* bytes fed in several calls, the last one by feed_byte, with messages out
\* and a message still in progress
C3_Witness ==
    /\ NoFailure
    /\ call.op = "feed_byte" /\ ~call.first
    /\ Len(fed) >= 3
    /\ Len(Delivered) >= 2
    /\ tok.msg # <<>>

----------------------------------------------------------------------------
StripRealtime(bytes) == SelectSeq(bytes, LAMBDA b : ~IsRealtime(b))

OnlyRealtime(bytes) == SelectSeq(bytes, IsRealtime)

IsRealtimeMessage(m) == \E b \in 248..255 : m = from_bytes(<<b>>)

IsFeedCall == call.op \in {"feed", "feed_byte"}

(* C4: as long as no call has failed, the tokenizer state (running status, *)
(* message in progress, sysex buffer) and the non-realtime messages are    *)
(* those of the fed bytes with every realtime byte left out; each realtime *)
(* byte fed gave a one-byte message, in order; and when the last byte fed  *)
(* is a realtime byte, its message is the last one delivered.              *)
(* [0x90, 0xF8, 60, 127] yields clock, then note-on 60/127.                *)
C4_RealtimeTransparent ==
    /\ NoFailure =>
          /\ \A plain \in {OneShot(StripRealtime(fed))} :
                /\ tok = plain.tok
                /\ SelectSeq(Delivered, LAMBDA m : ~IsRealtimeMessage(m))
                      = plain.messages
          /\ SelectSeq(Delivered, IsRealtimeMessage)
                = [i \in 1..Len(OnlyRealtime(fed)) |->
                      from_bytes(<<OnlyRealtime(fed)[i]>>)]
          /\ (fed # <<>> /\ IsRealtime(Last(fed)))
                => /\ Delivered # <<>>
                   /\ Last(Delivered) = from_bytes(<<Last(fed)>>)
    /\ OneShot(<<144, 248, 60, 127>>).messages
          = <<[type |-> "clock", channel |-> 0, data |-> <<>>],
              [type |-> "note_on", channel |-> 0, data |-> <<60, 127>>]>>

\* a realtime byte fed between a status byte and its data byte, both
\* messages out
C4_Witness ==
    /\ NoFailure
    /\ Len(fed) >= 3
    /\ IsChannelVoice(fed[1]) /\ IsRealtime(fed[2]) /\ IsData(fed[3])
    /\ Len(Delivered) >= 2
    /\ IsRealtimeMessage(Delivered[1])
    /\ ~IsRealtimeMessage(Delivered[2])

----------------------------------------------------------------------------
\* the index of the last status byte (>= 0x80) of bytes, 0 when none
LastStatusAt(bytes) ==
    LET at == {i \in 1..Len(bytes) : IsStatus(bytes[i])} IN
    IF at = {} THEN 0 ELSE CHOOSE i \in at : \A j \in at : j <= i

(* C5: when the last status byte fed is a channel voice status S, fed      *)
(* outside a sysex, and d data bytes follow it, then (no call having       *)
(* failed) the last d \div n messages are the successive groups of n data  *)
(* bytes under status S, n being the data bytes S requires, the running    *)
(* status is S and the d % n data bytes left over are in progress.         *)
(* [0x90, 60, 127, 61, 127] yields note-on 60/127, then note-on 61/127.    *)
C5_RunningStatus ==
    /\ \A k \in {LastStatusAt(fed)} :
       \A prior \in {OneShot(SubSeq(fed, 1, k - 1))} :
       (/\ NoFailure
        /\ k > 0
        /\ IsChannelVoice(fed[k])
        /\ prior.tok.sysex = <<>>)
       => LET S == fed[k]
              n == DataLen(S)
              d == Len(fed) - k
              before == prior.messages
          IN  /\ Len(Delivered) = Len(before) + d \div n
              /\ \A g \in 1..(d \div n) :
                    Delivered[Len(before) + g]
                      = from_bytes(<<S>> \o SubSeq(fed, k + (g - 1) * n + 1, k + g * n))
              /\ tok.running = S
              /\ tok.msg = IF d % n = 0 /\ d > 0 THEN <<>>
                           ELSE <<S>> \o SubSeq(fed, Len(fed) - (d % n) + 1, Len(fed))
    /\ OneShot(<<144, 60, 127, 61, 127>>).messages
          = <<[type |-> "note_on", channel |-> 0, data |-> <<60, 127>>],
              [type |-> "note_on", channel |-> 0, data |-> <<61, 127>>]>>

\* one status byte, then a second message under running status
C5_Witness ==
    /\ NoFailure
    /\ LastStatusAt(fed) = 1
    /\ IsChannelVoice(fed[1])
    /\ Len(fed) - 1 >= 2 * DataLen(fed[1])
    /\ Len(Delivered) >= 2

----------------------------------------------------------------------------
\* the index of the last 0xF0 of bytes, 0 when none
LastSysexStartAt(bytes) ==
    LET at == {i \in 1..Len(bytes) : bytes[i] = SYSEX_START} IN
    IF at = {} THEN 0 ELSE CHOOSE i \in at : \A j \in at : j <= i

\* no 0xF7 and no realtime byte among bytes[from..to]
PlainPayload(bytes, from, to) ==
    \A i \in from..to : bytes[i] # SYSEX_END /\ ~IsRealtime(bytes[i])

(* C6: however the bytes were split over calls (no call having failed),    *)
(* from the last 0xF0 fed on, as long as no 0xF7 has followed, no message  *)
(* has been added and the sysex buffer holds every byte since that 0xF0;   *)
(* once 0xF7 is fed, exactly one message has been added, whose token is    *)
(* every byte from 0xF0 through 0xF7 in order.  feed([0xF0,1,2]) leaves    *)
(* pending() at 0 and feed([3,0xF7]) then yields the one message of        *)
(* [0xF0,1,2,3,0xF7].                                                      *)
C6_SysexAcrossCalls ==
    /\ \A k \in {LastSysexStartAt(fed)} :
       \A before \in {OneShot(SubSeq(fed, 1, k - 1)).messages} :
       \A span \in {IF k > 0 THEN SubSeq(fed, k, Len(fed)) ELSE <<>>} :
           /\ (NoFailure /\ k > 0 /\ PlainPayload(fed, k + 1, Len(fed)))
                => /\ Delivered = before
                   /\ tok.sysex = span
           /\ (/\ NoFailure /\ k > 0 /\ k < Len(fed)
               /\ Last(fed) = SYSEX_END
               /\ PlainPayload(fed, k + 1, Len(fed) - 1))
                => /\ Delivered = Append(before, from_bytes(span))
                   /\ Last(framed) = span
                   /\ Last(Delivered).data = SubSeq(fed, k + 1, Len(fed) - 1)
                   /\ tok.sysex = <<>>
    /\ LET a == feed(NewParser, <<240, 1, 2>>, {})
           b == feed(a.p, <<3, 247>>, {})
       IN  /\ pending(a.p) = 0
           /\ a.p.tok.sysex = <<240, 1, 2>>
           /\ b.p.messages = <<from_bytes(<<240, 1, 2, 3, 247>>)>>
           /\ b.p.messages[1].data = <<1, 2, 3>>

\* a sysex whose 0xF7 came by a later feed_byte call than its 0xF0
C6_Witness ==
    /\ NoFailure
    /\ call.op = "feed_byte"
    /\ Len(fed) >= 3
    /\ fed[1] = SYSEX_START
    /\ Last(fed) = SYSEX_END
    /\ PlainPayload(fed, 2, Len(fed) - 1)
    /\ messages = <<from_bytes(fed)>>

----------------------------------------------------------------------------
\* this step is a feed / feed_byte call that returned normally and consumed
\* data bytes only (at least one)
FedDataBytesOnly ==
    /\ call'.op \in {"feed", "feed_byte"}
    /\ call'.err = "none"
    /\ Len(fed') > Len(fed)
    /\ \A i \in (Len(fed) + 1)..Len(fed') : IsData(fed'[i])

----------------------------------------------------------------------------
IsPopCall == call.op \in {"get_message", "next"}

(* C8: whenever get_message() returns None or the iterator is exhausted,   *)
(* the queue is empty and pending() is 0; and every get_message() on an    *)
(* empty queue returns None, raises nothing and changes neither the queue, *)
(* nor the tokenizer, nor what has been popped.                            *)
C8_DrainedStaysDrained ==
    /\ []((IsPopCall /\ call.ret = <<>>) => (messages = <<>> /\ pending(Self) = 0))
    /\ [][(messages = <<>> /\ call'.op = "get_message")
            => /\ call'.ret = <<>>
               /\ call'.err = "none"
               /\ messages' = messages
               /\ tok' = tok
               /\ popped' = popped]_vars

\* a queue that held messages, popped until get_message() returned None
C8_Witness ==
    /\ call.op = "get_message"
    /\ call.ret = <<>>
    /\ Len(popped) >= 2
    /\ messages = <<>>

----------------------------------------------------------------------------
(* C9: parse_all(data) raises what feed(data) raises on a new Parser and   *)
(* otherwise returns exactly the messages that Parser holds after          *)
(* feed(data), in order (none for empty data); parse(data) returns the     *)
(* first of them, or None when there is none.                              *)
C9_ParseAllIsFeed ==
    /\ LET f == feed(NewParser, fed \o call.rest, rejects) IN
       /\ call.op = "parse_all" =>
             /\ call.err = f.err
             /\ f.err = "none" => call.ret = f.p.messages
       /\ call.op = "parse" =>
             /\ call.err = f.err
             /\ f.err = "none" =>
                   call.ret = IF f.p.messages = <<>> THEN <<>>
                              ELSE <<f.p.messages[1]>>
    /\ parse_all(<<>>, {}).ret = <<>>
    /\ parse(<<>>, {}).ret = <<>>
    /\ parse_all(<<60, 127>>, {}).ret = <<>>
    /\ parse(<<60, 127>>, {}).ret = <<>>

\* parse returned the first of two different messages
C9_Witness ==
    /\ call.op = "parse"
    /\ call.err = "none"
    /\ Len(OneShot(fed).messages) >= 2
    /\ OneShot(fed).messages[1] # OneShot(fed).messages[2]
    /\ call.ret = <<OneShot(fed).messages[1]>>

----------------------------------------------------------------------------
(* C10: a feed / feed_byte call fails with InvalidInput exactly when a     *)
(* value of its argument is outside 0..255; the failed call leaves the     *)
(* queue as it was, and the tokenizer as the values before the offending   *)
(* one left it: the offending value and the values after it change         *)
(* nothing and frame no token.                                             *)
C10_InvalidInputStopsFeed ==
    [][call'.op \in {"feed", "feed_byte"} =>
        LET prefix == SubSeq(fed', Len(fed) + 1, Len(fed')) IN
        /\ call'.err = "InvalidInput" <=> call'.rest # <<>>
        /\ call'.rest # <<>> => ~IsByte(call'.rest[1])
        /\ \A i \in 1..Len(prefix) : IsByte(prefix[i])
        /\ call'.err = "InvalidInput" =>
              /\ messages' = messages
              /\ popped' = popped
              /\ tok' = TokFeed(tok, prefix).tok
              /\ framed' = framed \o NewlyFramed(tok.ready, TokFeed(tok, prefix).tok.ready)
              /\ given' = given + Len(prefix) + Len(call'.rest)]_vars

\* a failed feed call whose first values framed a token, with a message
\* queued before, and values after the offending one
C10_Witness ==
    /\ call.op = "feed"
    /\ call.err = "InvalidInput"
    /\ Len(call.rest) >= 2
    /\ tok.ready # <<>>
    /\ messages # <<>>

----------------------------------------------------------------------------
(* C11: two Parser instances share no object, and in every interleaving of *)
(* feed, feed_byte, pending and get_message calls on them, each instance's *)
(* queue and tokenizer, the messages it has yielded and what its last call *)
(* returned are those of the same calls run alone, in the same order, on a *)
(* Parser of its own.                                                      *)
C11_InstancesIndependent ==
    /\ parsers[1].self.messages # parsers[2].self.messages
    /\ parsers[1].self.tok # parsers[2].self.tok
    /\ \A i \in 1..2 :
          /\ View(heap, parsers[i].self) = alone[i].self
          /\ parsers[i].yielded = alone[i].yielded
          /\ parsers[i].last = alone[i].last

\* both instances were fed and popped, and differ in queue, tokenizer and
\* messages yielded
C11_Witness ==
    /\ parsers[1].yielded # <<>>
    /\ parsers[2].yielded # <<>>
    /\ parsers[1].yielded # parsers[2].yielded
    /\ heap[parsers[1].self.messages] # heap[parsers[2].self.messages]
    /\ heap[parsers[1].self.tok] # heap[parsers[2].self.tok]
    /\ heap[parsers[1].self.messages] # <<>>

----------------------------------------------------------------------------
(* C12: get_message() on a queue of k >= 1 messages returns the front      *)
(* message and removes exactly that one: pending() is then k-1, the other  *)
(* messages keep their order and the tokenizer is unchanged; pending()     *)
(* returns the queue length and changes neither queue nor tokenizer.       *)
C12_GetMessagePopsFront ==
    [][/\ (call'.op = "get_message" /\ Len(messages) >= 1) =>
             /\ call'.ret = <<Head(messages)>>
             /\ call'.err = "none"
             /\ messages' = Tail(messages)
             /\ pending(Self)' = pending(Self) - 1
             /\ popped' = Append(popped, Head(messages))
             /\ tok' = tok
       /\ call'.op = "pending" =>
             /\ call'.n = Len(messages)
             /\ messages' = messages
             /\ popped' = popped
             /\ tok' = tok]_vars

\* get_message() returned the front of a queue of two different messages
\* while the tokenizer held a message in progress
C12_Witness ==
    /\ call.op = "get_message"
    /\ call.ret # <<>>
    /\ messages # <<>>
    /\ call.ret[1] # messages[1]
    /\ tok.msg # <<>>

----------------------------------------------------------------------------
\* a fully framed token: one realtime byte, or a status byte with exactly
\* the data bytes its status requires, or a sysex span from 0xF0 to 0xF7
\* with no realtime byte, 0xF0 or 0xF7 between them
FullyFramed(token) ==
    /\ token # <<>>
    /\ \/ Len(token) = 1 /\ IsRealtime(token[1])
       \/ /\ IsStatus(token[1])
          /\ ~IsRealtime(token[1])
          /\ token[1] # SYSEX_START
          /\ Len(token) = 1 + DataLen(token[1])
          /\ \A i \in 2..Len(token) : IsData(token[i])
       \/ /\ Len(token) >= 2
          /\ token[1] = SYSEX_START
          /\ Last(token) = SYSEX_END
          /\ \A i \in 2..(Len(token) - 1) :
                 /\ IsByte(token[i])
                 /\ ~IsRealtime(token[i])
                 /\ token[i] # SYSEX_START
                 /\ token[i] # SYSEX_END

\* a message in progress that still misses data bytes
Unfinished(msg) ==
    /\ IsStatus(msg[1])
    /\ Len(msg) < 1 + DataLen(msg[1])
    /\ \A i \in 2..Len(msg) : IsData(msg[i])

(* C13: in every state, every token the tokenizer has emitted is fully     *)
(* framed (a realtime byte, a status byte with exactly its data bytes, or  *)
(* a sysex span 0xF0 .. 0xF7 with no realtime byte, 0xF0 or 0xF7 inside);  *)
(* every message popped or queued is the decoding of such a token; and     *)
(* what the tokenizer holds in progress is unfinished: a message missing   *)
(* data bytes, a sysex without its 0xF7.                                   *)
C13_OnlyFramedTokens ==
    /\ \A i \in 1..Len(framed) : FullyFramed(framed[i])
    /\ \A i \in 1..Len(tok.ready) : FullyFramed(tok.ready[i])
    /\ Len(Delivered) <= Len(framed)
    /\ Delivered = Decoded(SubSeq(framed, 1, Len(Delivered)))
    /\ tok.msg # <<>> => Unfinished(tok.msg)
    /\ tok.sysex # <<>> =>
          /\ tok.sysex[1] = SYSEX_START
          /\ PlainPayload(tok.sysex, 1, Len(tok.sysex))
          /\ \A i \in 2..Len(tok.sysex) : tok.sysex[i] # SYSEX_START

\* a realtime token and a channel voice token are out, the queue is not
\* empty and a message is in progress
C13_Witness ==
    /\ Len(framed) >= 2
    /\ \E i \in 1..Len(framed) : IsRealtime(framed[i][1])
    /\ \E i \in 1..Len(framed) : IsChannelVoice(framed[i][1])
    /\ messages # <<>>
    /\ tok.msg # <<>>

----------------------------------------------------------------------------
\* the last 0xF0 of bytes has no 0xF7 after it
InOpenSysex(bytes) ==
    LET j == LastSysexStartAt(bytes) IN
    j > 0 /\ \A i \in (j + 1)..Len(bytes) : bytes[i] # SYSEX_END

\* the index of the last status byte of bytes that is no realtime byte
\* (0x80-0xF7), 0 when none
LastFramingStatusAt(bytes) ==
    LET at == {i \in 1..Len(bytes) : IsStatus(bytes[i]) /\ ~IsRealtime(bytes[i])}
    IN  IF at = {} THEN 0 ELSE CHOOSE i \in at : \A j \in at : j <= i

\* the running status bytes leave behind: none inside a sysex; otherwise
\* the last status byte that is no realtime byte, if it is a channel voice
\* status
RunningAfter(bytes) ==
    IF InOpenSysex(bytes) THEN 0
    ELSE LET k == LastFramingStatusAt(bytes) IN
         IF k > 0 /\ IsChannelVoice(bytes[k]) THEN bytes[k] ELSE 0

Min(a, b) == IF a <= b THEN a ELSE b

(* C14: in every state the running status is the last status byte fed that *)
(* is no realtime byte, if that byte is a channel voice status fed outside *)
(* a sysex, and none otherwise: a system status 0xF0-0xF7 clears it, a     *)
(* channel voice status replaces it, a realtime byte or a data byte leaves *)
(* it as it was.  When the last such status byte is a system common status *)
(* or the 0xF7 of a sysex (no call having failed), the data bytes after it *)
(* beyond those the status requires are orphans: running status, message   *)
(* in progress and the messages other than realtime ones are as if they    *)
(* had not been fed, and none is framed under the channel voice status fed *)
(* before.  On a new Parser (the three examples are stated for the state   *)
(* where nothing has been fed) [0x90,60,127,0xF6,61,127] yields note-on    *)
(* and tune request and nothing else, [0x90,60,127,0xF0,1,0xF7,61,127]     *)
(* note-on and sysex, [0x90,0xF8,60,127,61,127] clock and two note-ons.    *)
C14_SystemClearsRunning ==
    /\ tok.running = RunningAfter(fed)
    /\ (fed # <<>> /\ (IsRealtime(Last(fed)) \/ IsData(Last(fed))))
          => tok.running = RunningAfter(SubSeq(fed, 1, Len(fed) - 1))
    /\ \A k \in {LastFramingStatusAt(fed)} :
          (NoFailure /\ k > 0 /\ ~InOpenSysex(fed) /\ ~IsChannelVoice(fed[k]))
          => \A after \in {StripRealtime(SubSeq(fed, k + 1, Len(fed)))} :
             \A kept \in {OneShot(StripRealtime(SubSeq(fed, 1, k))
                             \o SubSeq(after, 1, Min(DataLen(fed[k]), Len(after))))} :
                /\ tok.running = 0
                /\ tok.msg = kept.tok.msg
                /\ SelectSeq(Delivered, LAMBDA m : ~IsRealtimeMessage(m))
                      = kept.messages
    /\ fed = <<>> =>
          /\ OneShot(<<144, 60, 127, 246, 61, 127>>).messages
                = <<[type |-> "note_on", channel |-> 0, data |-> <<60, 127>>],
                    [type |-> "tune_request", channel |-> 0, data |-> <<>>]>>
          /\ OneShot(<<144, 60, 127, 240, 1, 247, 61, 127>>).messages
                = <<[type |-> "note_on", channel |-> 0, data |-> <<60, 127>>],
                    [type |-> "sysex", channel |-> 0, data |-> <<1>>]>>
          /\ OneShot(<<144, 248, 60, 127, 61, 127>>).messages
                = <<[type |-> "clock", channel |-> 0, data |-> <<>>],
                    [type |-> "note_on", channel |-> 0, data |-> <<60, 127>>],
                    [type |-> "note_on", channel |-> 0, data |-> <<61, 127>>]>>

\* a channel voice message, then a system message, then a data byte that
\* is an orphan
C14_Witness ==
    /\ NoFailure
    /\ Len(fed) = 4
    /\ IsChannelVoice(fed[1])
    /\ IsData(fed[2])
    /\ fed[3] \in 241..247
    /\ DataLen(fed[3]) = 0
    /\ IsData(fed[4])
    /\ Len(Delivered) = 2
    /\ tok.running = 0

----------------------------------------------------------------------------
\* a system common status byte whose message takes no data bytes: 0xF6 and
\* the undefined 0xF4 and 0xF5
ZeroDataStatus(b) == b \in 241..246 /\ DataLen(b) = 0

\* this step is a feed / feed_byte call that consumed exactly one byte, a
\* status byte that takes no data bytes
FedZeroDataStatus ==
    /\ call'.op \in {"feed", "feed_byte"}
    /\ Len(fed') = Len(fed) + 1
    /\ ZeroDataStatus(Last(fed'))

----------------------------------------------------------------------------
\* a new Tokenizer after bytes
Tokenized(bytes) == TokFeed(NewTokenizer, bytes).tok

(* C16: whenever a status byte that is no realtime byte was fed while a    *)
(* message still missed data bytes, the incomplete message gave no token:  *)
(* the tokens framed so far are those framed before that status byte       *)
(* followed by the tokens a new tokenizer frames from that status byte and *)
(* the bytes after it, each of which is a realtime byte or starts with a   *)
(* status byte fed since; running status, message in progress and sysex    *)
(* buffer are that new tokenizer's; the messages follow suit when no call  *)
(* has failed.  The feed_byte call of such a status byte raises nothing    *)
(* and emits at most the one-byte token of the status byte itself.         *)
C16_IncompleteDiscarded ==
    /\ [](\A k \in 2..Len(fed) :
          (IsStatus(fed[k]) /\ ~IsRealtime(fed[k])) =>
          \A pre \in {Tokenized(SubSeq(fed, 1, k - 1))} :
          pre.msg # <<>> =>
          \A new \in {Tokenized(SubSeq(fed, k, Len(fed)))} :
             /\ framed = pre.ready \o new.ready
             /\ tok.running = new.running
             /\ tok.msg = new.msg
             /\ tok.sysex = new.sysex
             /\ \A i \in 1..Len(new.ready) :
                   \/ IsRealtime(new.ready[i][1])
                   \/ \E j \in k..Len(fed) : /\ new.ready[i][1] = fed[j]
                                             /\ IsStatus(fed[j])
             /\ NoFailure => Delivered = Decoded(pre.ready) \o Decoded(new.ready))
    /\ [][(/\ call'.op = "feed_byte"
           /\ Len(fed') = Len(fed) + 1
           /\ IsStatus(Last(fed')) /\ ~IsRealtime(Last(fed'))
           /\ tok.msg # <<>>)
          => /\ call'.err = "none"
             /\ tok'.msg \in {<<>>, <<Last(fed')>>}
             /\ framed' \in {framed, Append(framed, <<Last(fed')>>)}
             /\ Len(messages') = Len(messages) + Len(tok.ready)
                                    + Len(framed') - Len(framed)]_vars

\* a program change took over from a quarter frame message that missed its
\* data byte, and the data byte after it gave the program change message
C16_Witness ==
    /\ NoFailure
    /\ Len(fed) >= 3
    /\ fed[1] = 241
    /\ IsChannelVoice(fed[2])
    /\ IsData(fed[3])
    /\ Delivered # <<>>
    /\ Delivered[1] = from_bytes(<<fed[2], fed[3]>>)

----------------------------------------------------------------------------
\* this step is a feed / feed_byte call that returned normally
FeedReturned ==
    /\ call'.op \in {"feed", "feed_byte"}
    /\ call'.err = "none"

(* C17 as stated: when feed / feed_byte returns normally, the tokenizer's  *)
(* ready list is empty and the queue has grown by exactly the number of    *)
(* tokens that call completed; no framed token ever waits in the           *)
(* tokenizer between Parser operations.                                    *)
C17_NoTokenEverWaits ==
    /\ [](tok.ready = <<>>)
    /\ [][FeedReturned
          => /\ tok'.ready = <<>>
             /\ Len(messages') = Len(messages) + Len(framed') - Len(framed)]_vars

(* C17 as amended: when feed / feed_byte (or the constructor given         *)
(* non-empty data) returns normally, the tokenizer's ready list is empty   *)
(* and the queue has grown by the tokens an earlier failed call left       *)
(* waiting followed by the tokens this call completed, decoded in order;   *)
(* a framed token waits in the tokenizer between Parser operations only    *)
(* after a feed call that failed, until the next feed call that returns    *)
(* normally.                                                               *)
C17_ReadyDrainedOnReturn ==
    /\ [][FeedReturned
          => /\ tok'.ready = <<>>
             /\ messages' = messages \o Decoded(tok.ready)
                               \o Decoded(SubSeq(framed', Len(framed) + 1, Len(framed')))
             /\ pending(Self)' = pending(Self) + Len(tok.ready)
                                    + Len(framed') - Len(framed)]_vars
    /\ []((IsFeedCall /\ call.err = "none") => tok.ready = <<>>)
    /\ [](tok.ready # <<>> => ~NoFailure)
    /\ []((call.op = "feed" /\ call.first /\ call.err = "none" /\ fed # <<>>)
          => \A c \in {ParserInit(fed, rejects)} :
                /\ c.err = "none"
                /\ c.p = Self
                /\ c.p.tok.ready = <<>>
                /\ pending(c.p) = Len(framed))

\* a feed call returned normally after one that failed: the queue holds
\* the token that waited and the token of this call
C17_Witness ==
    /\ IsFeedCall /\ call.err = "none"
    /\ ~NoFailure
    /\ tok.ready = <<>>
    /\ Len(messages) >= 2
    /\ Len(framed) = Len(messages)
    /\ IsData(Last(fed))

----------------------------------------------------------------------------
\* the tokens of a sequence the decoder does not raise on
Accepted(tokens) == SelectSeq(tokens, LAMBDA t : t \notin rejects)

\* the index of the first token of a sequence the decoder raises on, 0 when
\* there is none
FirstRejectedAt(tokens) ==
    LET at == {i \in 1..Len(tokens) : tokens[i] \in rejects} IN
    IF at = {} THEN 0 ELSE CHOOSE i \in at : \A j \in at : i <= j

\* this step is a feed / feed_byte call
FeedCalled == call'.op \in {"feed", "feed_byte"}

(* C18 as stated, for the call right after the failed one: when the last   *)
(* call failed in the decoder and this call is a feed, the tokens that     *)
(* stayed in the tokenizer are decoded, in order, by this call.            *)
C18_NextFeedDecodesRest ==
    [][(call.err = "DecodeError" /\ FeedCalled)
          => /\ Len(messages') >= Len(messages) + Len(tok.ready)
             /\ SubSeq(messages', 1, Len(messages) + Len(tok.ready))
                   = messages \o Decoded(tok.ready)]_vars

(* C18 as amended: a feed / feed_byte call whose bytes are all valid       *)
(* drains the tokens waiting in the tokenizer, then the tokens it framed.  *)
(* When the decoder raises on the k-th of them, the call fails with        *)
(* DecodeError, the k-1 messages before it are in the queue, the k-th      *)
(* token is gone from the tokenizer and the tokens after it wait there;    *)
(* when it raises on none, all are decoded and the call returns normally.  *)
(* A call that fails on a value outside 0..255 decodes nothing.  So the    *)
(* tokens left waiting are decoded, in order, by the following feed calls  *)
(* each up to the next token the decoder raises on; in every state the     *)
(* messages popped and queued, then the decodings of the waiting tokens    *)
(* the decoder accepts, are the decodings of the framed tokens it accepts, *)
(* in framing order, and a token it raises on never yields a message.      *)
C18_DecodeErrorKeepsRest ==
    /\ [](Delivered \o Decoded(Accepted(tok.ready)) = Decoded(Accepted(framed)))
    /\ [](\A i \in 1..Len(Delivered) :
             \A t \in rejects : Delivered[i] # from_bytes(t))
    /\ [][(FeedCalled /\ call'.err # "InvalidInput")
          => \A all \in {tok.ready \o SubSeq(framed', Len(framed) + 1, Len(framed'))} :
             \A k \in {FirstRejectedAt(all)} :
                /\ popped' = popped
                /\ IF k = 0
                   THEN /\ call'.err = "none"
                        /\ messages' = messages \o Decoded(all)
                        /\ tok'.ready = <<>>
                   ELSE /\ call'.err = "DecodeError"
                        /\ messages' = messages \o Decoded(SubSeq(all, 1, k - 1))
                        /\ tok'.ready = SubSeq(all, k + 1, Len(all))]_vars
    /\ [][(FeedCalled /\ call'.err = "InvalidInput")
          => /\ messages' = messages
             /\ tok'.ready = tok.ready
                               \o SubSeq(framed', Len(framed) + 1, Len(framed'))]_vars

\* the first call on a new Parser failed in the decoder on its second
\* token: the first message is queued, a third token waits
C18_Witness ==
    /\ call.op = "feed" /\ call.first
    /\ call.err = "DecodeError"
    /\ Len(messages) = 1
    /\ Len(tok.ready) = 1
    /\ Len(framed) = 3
    /\ framed[2] \in rejects

----------------------------------------------------------------------------
\* a note of no length and some velocity
ZeroLength(note) == note.start = note.end /\ note.velocity # 0

\* max(end) over a note list that is not empty
MaxEnd(stream) ==
    CHOOSE m \in {stream[i].end : i \in 1..Len(stream)} :
        \A i \in 1..Len(stream) : stream[i].end <= m

(* C19: when the note list given to notes2pianoroll (keep_note True, the   *)
(* other arguments at their defaults) holds a note of no length and        *)
(* nonzero velocity, the call returns a pianoroll of max(end) rows in      *)
(* which the cell (start, pitch) of each such note holds its velocity.     *)
C19_ZeroLengthNoteKept ==
    (roll.called /\ \E i \in 1..Len(note_stream_ori) : ZeroLength(note_stream_ori[i]))
       => /\ roll.err = "none"
          /\ roll.rows = MaxEnd(note_stream_ori)
          /\ \A i \in 1..Len(note_stream_ori) :
                ZeroLength(note_stream_ori[i])
                   => At(roll, note_stream_ori[i].start, note_stream_ori[i].pitch)
                         = note_stream_ori[i].velocity

\* the call was made on a list whose note of no length has the largest end
\* tick, and raised
C19_Witness ==
    /\ roll.called
    /\ Len(note_stream_ori) = 2
    /\ note_stream_ori[1].start < note_stream_ori[1].end
    /\ note_stream_ori[1].velocity # 0
    /\ ZeroLength(note_stream_ori[2])
    /\ note_stream_ori[2].end = MaxEnd(note_stream_ori)
    /\ roll.err = "ValueError"

----------------------------------------------------------------------------
\* pitch in 0..127, velocity in 1..127, 0 <= start < end for every note,
\* and no two notes of one pitch overlap or touch
RoundTripInput(stream) ==
    /\ \A i \in 1..Len(stream) :
          /\ stream[i].pitch \in 0..127
          /\ stream[i].velocity \in 1..127
          /\ 0 <= stream[i].start
          /\ stream[i].start < stream[i].end
    /\ \A i, j \in 1..Len(stream) :
          (i # j /\ stream[i].pitch = stream[j].pitch)
             => \/ stream[i].end < stream[j].start
                \/ stream[j].end < stream[i].start

(* C20: for a note list with pitch in 0..127, velocity in 1..127,          *)
(* 0 <= start < end and no two notes of one pitch overlapping or touching, *)
(* notes2pianoroll returns an array, and pianoroll2notes on it returns one *)
(* note per input note, with its pitch, start, end and velocity, ordered   *)
(* by non-decreasing start, each with start < end and velocity in 0..127.  *)
C20_RoundTrip ==
    RoundTripInput(note_stream_ori) =>
       /\ roll.called => roll.err = "none"
       /\ notes.called =>
             /\ Len(notes.list) = Len(note_stream_ori)
             /\ {notes.list[i] : i \in 1..Len(notes.list)}
                   = {note_stream_ori[i] : i \in 1..Len(note_stream_ori)}
             /\ \A i \in 1..(Len(notes.list) - 1) :
                   notes.list[i].start <= notes.list[i + 1].start
             /\ \A i \in 1..Len(notes.list) :
                   /\ notes.list[i].start < notes.list[i].end
                   /\ notes.list[i].velocity \in 0..127

\* two notes came back in another order than they were given in, the one of
\* the higher pitch first
C20_Witness ==
    /\ RoundTripInput(note_stream_ori)
    /\ notes.called
    /\ Len(notes.list) = 2
    /\ notes.list # note_stream_ori
    /\ notes.list[1].pitch > notes.list[2].pitch
    /\ notes.list[1].velocity # notes.list[2].velocity

====
